---- MODULE Spec2Model ----
(***************************************************************************)
(* A model of the rust-raytracer rendering core:                           *)
(*   - render / render_line / find_lights   (src/src/raytracer.rs)         *)
(*   - ray_color, the recursive light transport (src/src/raytracer.rs and  *)
(*     the earlier crate src/raytracer/src/raytracer.rs)                   *)
(*   - Ellipsoid::hit and hit_world (src/src/body/ellipsoid.rs)            *)
(* Each part has its own specification over the shared variables.          *)
(***************************************************************************)
EXTENDS Integers, Sequences, FiniteSets, TLC

VARIABLES
    world,      \* scene.objects: the ordered sequence of bodies
    lights,     \* the result of find_lights (empty before it ran)
    width,      \* scene.width
    height,     \* scene.height
    pc,         \* position of the thread that runs render (or the driver of a section)
    pixels,     \* the pixel buffer: for each byte, the rows that wrote it, in order
    bands,      \* the (index, slice) pairs collected from chunks_mut
    rows,       \* per band: the position of its render_line task
    encoded,    \* the calls made to write_image, in order
    cfg,        \* the traced call's setting: crate, build profile, scene.max_depth, scene.sky
    stack,      \* the nested ray_color calls, outermost first
    ret,        \* the colour the last finished ray_color call returned, until its caller takes it
    step,       \* what the last step of ray_color did
    query,      \* the arguments of a hit call: ray, t_min, t_max
    hits        \* the results of the hit calls made for the query

renderVars == <<width, height, pixels, bands, rows, encoded>>
traceVars == <<cfg, stack, ret, step>>
hitVars == <<query, hits>>
vars == <<world, lights, pc, renderVars, traceVars, hitVars>>

\* the values of the variables a section does not use
NoRet == <<>>
NoCfg == [crate |-> "none", build |-> "none", max_depth |-> 0, sky |-> "none"]
NoQuery == <<>>
NoStep == [op |-> "none", hit_world |-> FALSE, scatter |-> FALSE, gate |-> "none", uy |-> 0]

(***************************************************************************)
(* Bounds of the model.                                                    *)
(***************************************************************************)
MaxWidth == 2
MaxHeight == 3
MaxWorld == 2

\* Bytes per pixel: Rgb8.
Channels == 3

Min(a, b) == IF a < b THEN a ELSE b
Max(a, b) == IF a > b THEN a ELSE b

(***************************************************************************)
(* Bodies and materials.                                                   *)
(***************************************************************************)
Kinds == {"Sphere", "Ellipsoid"}
Materials == {"Lambertian", "Metal", "Glass", "Light"}

\* A body as far as the driver looks at it: its variant and its material's variant.
Body == [kind : Kinds, material : Materials]

RECURSIVE SeqsUpTo(_, _)
SeqsUpTo(S, n) ==
    IF n = 0 THEN {<<>>}
    ELSE LET shorter == SeqsUpTo(S, n - 1)
         IN  shorter \cup {Append(s, x) : s \in {t \in shorter : Len(t) = n - 1}, x \in S}

Worlds == SeqsUpTo(Body, MaxWorld)

\* The world of test_find_lights: a Light sphere and a Lambertian sphere.
TestWorld ==
    << [kind |-> "Sphere", material |-> "Light"],
       [kind |-> "Sphere", material |-> "Lambertian"] >>

\* flat_map(|x| match x { Body::Sphere(s) => Some(s), _ => None })
IsSphere(b) == b.kind = "Sphere"

\* filter(|s| match s.material { Material::Light(_) => true, _ => false })
IsLightMaterial(b) == b.material = "Light"

RECURSIVE find_lights_from(_, _)
\* the iterator chain of find_lights over w[i..], collected in order
find_lights_from(w, i) ==
    IF i > Len(w) THEN <<>>
    ELSE IF IsSphere(w[i]) /\ IsLightMaterial(w[i])
         THEN <<w[i]>> \o find_lights_from(w, i + 1)
         ELSE find_lights_from(w, i + 1)

find_lights(w) == find_lights_from(w, 1)

(***************************************************************************)
(* render: the buffer, its bands and the row tasks.                        *)
(***************************************************************************)
\* slice::chunks_mut(n) over a buffer of len bytes, n > 0: the half-open byte
\* ranges [lo, hi) (0-based) of the chunks, in order; the last may be shorter.
ChunkCount(len, n) == (len + n - 1) \div n

chunks_mut_overlapping(len, n) ==
    [j \in 1..ChunkCount(len, n) |->
        [lo |-> Max(0, (j - 1) * n - 1), hi |-> Min(j * n, len)]]

chunks_mut(len, n) ==
    [j \in 1..ChunkCount(len, n) |->
        [lo |-> (j - 1) * n, hi |-> Min(j * n, len)]]

\* .enumerate(): band j (1-based here) carries the row index i = j - 1.
RowOf(j) == j - 1

\* render_line's index into its band for column x, channel k (0, 1, 2)
BandIndex(x, k) == x * Channels + k

InitRender ==
    /\ world \in {<<>>, TestWorld}
    /\ lights = <<>>
    /\ width \in 0..MaxWidth
    /\ height \in 0..MaxHeight
    /\ pc = "alloc"
    /\ pixels = <<>>
    /\ bands = <<>>
    /\ rows = <<>>
    /\ encoded = <<>>
    /\ cfg = NoCfg
    /\ stack = <<>>
    /\ ret = NoRet
    /\ step = NoStep
    /\ query = NoQuery
    /\ hits = <<>>

\* let mut pixels = vec![0; w*h*3]; let bands = pixels.chunks_mut(w*3).enumerate().collect();
\* chunks_mut panics when the chunk size is 0.
Alloc ==
    /\ pc = "alloc"
    /\ pixels' = [i \in 1..(width * height * Channels) |-> <<>>]
    /\ IF width * Channels = 0
       THEN /\ pc' = "panicked"
            /\ UNCHANGED bands
       ELSE /\ pc' = "find_lights"
            /\ bands' = chunks_mut(width * height * Channels, width * Channels)
    /\ UNCHANGED <<traceVars, hitVars, world, lights, width, height, rows, encoded>>

\* let lights = find_lights(&scene.objects);
FindLights ==
    /\ pc = "find_lights"
    /\ lights' = find_lights(world)
    /\ pc' = "par_iter"
    /\ UNCHANGED <<traceVars, hitVars, world, width, height, pixels, bands, rows, encoded>>

\* bands.into_par_iter().for_each(...): one task per band, none started yet.
Fork ==
    /\ pc = "par_iter"
    /\ rows' = [j \in 1..Len(bands) |-> [st |-> "queued", x |-> 0, k |-> 0]]
    /\ pc' = "join"
    /\ UNCHANGED <<traceVars, hitVars, world, lights, width, height, pixels, bands, encoded>>

\* A worker picks up band j and enters render_line(band, scene, lights, i).
RowStart(j) ==
    /\ pc = "join"
    /\ rows[j].st = "queued"
    /\ rows' = [rows EXCEPT ![j].st = "sampling"]
    /\ UNCHANGED <<traceVars, hitVars, world, lights, width, height, pc, pixels, bands, encoded>>

\* for x in 0..bounds.0: the sample loop of column x, or the end of the loop.
RowSample(j) ==
    /\ pc = "join"
    /\ rows[j].st = "sampling"
    /\ rows' = IF rows[j].x < width
               THEN [rows EXCEPT ![j].st = "writing", ![j].k = 0]
               ELSE [rows EXCEPT ![j].st = "done"]
    /\ UNCHANGED <<traceVars, hitVars, world, lights, width, height, pc, pixels, bands, encoded>>

\* pixels[x * 3 + k] = channel k, bounds-checked against the band.
RowWrite(j) ==
    /\ pc = "join"
    /\ rows[j].st = "writing"
    /\ LET idx == BandIndex(rows[j].x, rows[j].k)
           len == bands[j].hi - bands[j].lo
       IN  IF idx >= len
           THEN /\ rows' = [rows EXCEPT ![j].st = "panicked"]
                /\ UNCHANGED pixels
           ELSE /\ pixels' = [pixels EXCEPT ![bands[j].lo + idx + 1] = Append(@, RowOf(j))]
                /\ rows' = IF rows[j].k < Channels - 1
                           THEN [rows EXCEPT ![j].k = @ + 1]
                           ELSE [rows EXCEPT ![j].st = "sampling", ![j].x = @ + 1, ![j].k = 0]
    /\ UNCHANGED <<traceVars, hitVars, world, lights, width, height, pc, bands, encoded>>

AllRowsDone == \A j \in 1..Len(rows) : rows[j].st = "done"
AllRowsEnded == \A j \in 1..Len(rows) : rows[j].st \in {"done", "panicked"}
AnyRowPanicked == \E j \in 1..Len(rows) : rows[j].st = "panicked"

JoinEarly == pc = "join"
JoinReady == pc = "join" /\ AllRowsEnded

\* for_each returns once every task has ended, and re-raises a task's panic.
Join ==
    /\ JoinReady
    /\ pc' = IF AnyRowPanicked THEN "panicked" ELSE "write_image"
    /\ UNCHANGED <<traceVars, hitVars, world, lights, width, height, pixels, bands, rows, encoded>>

\* write_image(filename, &pixels, (image_width, image_height)): Ok or an I/O error.
WriteImage ==
    /\ pc = "write_image"
    /\ encoded' = Append(encoded, [pixels |-> pixels, bounds |-> <<width, height>>])
    /\ \E ok \in BOOLEAN : pc' = IF ok THEN "returned_ok" ELSE "returned_err"
    /\ UNCHANGED <<traceVars, hitVars, world, lights, width, height, pixels, bands, rows>>

Next ==
    \/ Alloc
    \/ FindLights
    \/ Fork
    \/ \E j \in 1..Len(rows) : RowStart(j)
    \/ \E j \in 1..Len(rows) : RowSample(j)
    \/ \E j \in 1..Len(rows) : RowWrite(j)
    \/ Join
    \/ WriteImage

Spec == InitRender /\ [][Next]_vars

(***************************************************************************)
(* find_lights on its own, over every world up to MaxWorld bodies.         *)
(***************************************************************************)
renderIdle ==
    /\ width = 0
    /\ height = 0
    /\ pixels = <<>>
    /\ bands = <<>>
    /\ rows = <<>>
    /\ encoded = <<>>

traceIdle ==
    /\ cfg = NoCfg
    /\ stack = <<>>
    /\ ret = NoRet
    /\ step = NoStep

hitIdle ==
    /\ query = NoQuery
    /\ hits = <<>>

InitLights ==
    /\ world \in Worlds
    /\ lights = <<>>
    /\ pc = "find_lights"
    /\ renderIdle
    /\ traceIdle
    /\ hitIdle

FindLightsCall ==
    /\ pc = "find_lights"
    /\ lights' = find_lights(world)
    /\ pc' = "lights_found"
    /\ UNCHANGED <<world, renderVars, traceVars, hitVars>>

NextLights == FindLightsCall

SpecLights == InitLights /\ [][NextLights]_vars

(***************************************************************************)
(* ray_color: colours are f32 triples, held in thousandths.                *)
(***************************************************************************)
One == 1000

Black == <<0, 0, 0>>
Grey == <<500, 500, 500>>
White == <<One, One, One>>

\* the attenuation a body's material hands back from scatter: the grey of the
\* test scene's Lambertian, white for the others
AlbedoOf(b) == IF b.material \in {"Lambertian", "Metal"} THEN Grey ELSE White

\* the y component of a ray's unit direction: straight down, level (as for
\* (1,0,0)) or straight up
UnitYs == {-One, 0, One}

FMul(a, b) == (a * b) \div One

clamp(value) ==
    IF value < 0 THEN 0
    ELSE IF value > One THEN One
    ELSE value

\* a sky texture of one white pixel: (pixels, width, height)
SkyTexture == [pixels |-> <<255, 255, 255>>, width |-> 1, height |-> 1]

\* the None arm of the match on hit: the sky seen along a ray of unit y uy.
\* The older crate's sky is a bool and its t is not clamped; t is in [0, 1]
\* for every unit y, where clamp changes nothing.
SkyColorSwapped(sky, uy) ==
    LET t == clamp(FMul(500, uy + One))
    IN  IF sky = "none" THEN Black
        ELSE << FMul(t, One) + FMul(One - t, 500),
                FMul(t, One) + FMul(One - t, 700),
                FMul(t, One) + FMul(One - t, One) >>
SkyColor(sky, uy) ==
    LET t == clamp(FMul(500, uy + One))
    IN  IF sky = "none" THEN Black
        ELSE IF sky = "gradient"
        THEN << FMul(One - t, One) + FMul(t, 500),
                FMul(One - t, One) + FMul(t, 700),
                FMul(One - t, One) + FMul(t, One) >>
        ELSE LET y == FMul(One - t, (SkyTexture.height - 1) * One) \div One
                 i == (y * SkyTexture.width + 0) * 3
             IN  [c \in 1..3 |-> (700 * SkyTexture.pixels[i + c]) \div 255]

\* rng.gen::<f64>() in [0, 1), in fortieths: the least and the greatest draw
DrawDen == 40
Draws == {0, DrawDen - 1}

\* prob, in fortieths: 0.05 for Glass, 0.1 otherwise
Prob(material) == IF material = "Glass" THEN 2 ELSE 4

\* rng.gen::<f64>() > (1.0 - lights.len() as f64 * prob)
DrawPasses(draw, material) == draw > DrawDen - Len(lights) * Prob(material)

\* max_depth - 2 on usize: "ok", or "underflow" when max_depth < 2
GateSub(max_depth) == IF max_depth >= 2 THEN "ok" ELSE "underflow"

\* depth > (max_depth - 2); after a wrapping underflow the right-hand side is
\* 2^w + max_depth - 2, above every depth
DepthGate(max_depth, depth) ==
    IF GateSub(max_depth) = "ok" THEN depth > max_depth - 2 ELSE FALSE

\* the (max_depth, depth) of the call made for a light ray
ProbeArgs(crate) ==
    IF crate = "src" THEN [max_depth |-> 2, depth |-> 1]
    ELSE [max_depth |-> 1, depth |-> 1]

\* if depth <= 0 { return black }
DepthBelowZero(depth) == depth < 0
DepthExhausted(depth) == depth <= 0

MaxDepthCfg == 2
MaxStack == 5

TraceWorlds ==
    { <<>>,
      TestWorld,
      << [kind |-> "Sphere", material |-> "Glass"],
         [kind |-> "Sphere", material |-> "Light"] >> }

Frame(kind, max_depth, depth) ==
    [kind |-> kind, max_depth |-> max_depth, depth |-> depth, at |-> "entry",
     albedo |-> Black, sr |-> FALSE, light |-> Black, li |-> 0]

Top == stack[Len(stack)]
Pop == SubSeq(stack, 1, Len(stack) - 1)
SetTop(f) == [stack EXCEPT ![Len(stack)] = f]

Running == pc = "tracing" /\ stack # <<>> /\ ret = NoRet

\* what a step did: whether it intersected the world, whether it asked a material
\* to scatter, and how far the evaluation of the light-sampling condition got
StepRec(op, hw, sc, gate) ==
    [op |-> op, hit_world |-> hw, scatter |-> sc, gate |-> gate, uy |-> 0]

\* render_line: ray_color(&r, scene, lights, scene.max_depth, scene.max_depth)
InitTrace ==
    /\ world \in TraceWorlds
    /\ lights = find_lights(world)
    /\ cfg \in [crate : {"src", "raytracer"}, build : {"debug", "release"},
                max_depth : 0..MaxDepthCfg, sky : {"none", "gradient", "texture"}]
    /\ cfg.sky = "texture" => cfg.crate = "src"
    /\ pc = "tracing"
    /\ stack = <<Frame("camera", cfg.max_depth, cfg.max_depth)>>
    /\ ret = NoRet
    /\ step = NoStep
    /\ renderIdle
    /\ hitIdle

\* the call returns v to its caller
Return(v) ==
    /\ stack' = Pop
    /\ ret' = v

\* depth <= 0: black, before anything else is looked at
RayColorDepthZero ==
    /\ Running /\ Top.at = "entry"
    /\ DepthExhausted(Top.depth)
    /\ Return(Black)
    /\ step' = StepRec("depth_zero", FALSE, FALSE, "none")
    /\ UNCHANGED <<world, lights, pc, cfg, renderVars, hitVars>>

\* hit_world finds nothing: the sky
RayColorMiss ==
    /\ Running /\ Top.at = "entry"
    /\ ~DepthExhausted(Top.depth)
    /\ \E uy \in UnitYs :
        /\ Return(SkyColor(cfg.sky, uy))
        /\ step' = [StepRec("miss", TRUE, FALSE, "none") EXCEPT !.uy = uy]
    /\ UNCHANGED <<world, lights, pc, cfg, renderVars, hitVars>>

\* hit_world finds body i, whose material absorbs the ray: scatter is None
RayColorAbsorbed ==
    /\ Running /\ Top.at = "entry"
    /\ ~DepthExhausted(Top.depth)
    /\ \E i \in 1..Len(world) : TRUE
    /\ Return(Black)
    /\ step' = StepRec("absorbed", TRUE, TRUE, "none")
    /\ UNCHANGED <<world, lights, pc, cfg, renderVars, hitVars>>

\* hit_world finds body i and its material scatters: Some((scattered_ray, albedo)).
\* The light-sampling condition is evaluated left to right, and stops at the
\* first false operand.
RayColorScatter ==
    /\ Running /\ Top.at = "entry"
    /\ ~DepthExhausted(Top.depth)
    /\ \E i \in 1..Len(world), sr \in BOOLEAN, draw \in Draws :
        LET f == [Top EXCEPT !.albedo = AlbedoOf(world[i]), !.sr = sr]
            reached == Len(lights) > 0 /\ DrawPasses(draw, world[i].material)
            sub == IF reached THEN GateSub(Top.max_depth) ELSE "none"
        IN  IF sub = "underflow" /\ cfg.build = "debug"
            THEN /\ pc' = "panicked"
                 /\ stack' = SetTop(f)
                 /\ step' = StepRec("scatter", TRUE, TRUE, "underflow_panic")
            ELSE /\ pc' = pc
                 /\ IF reached /\ DepthGate(Top.max_depth, Top.depth)
                    THEN stack' = SetTop([f EXCEPT !.at = "lights", !.li = 1])
                    ELSE stack' = SetTop([f EXCEPT !.at = "after_lights"])
                 /\ step' = StepRec("scatter", TRUE, TRUE,
                                    IF sub = "underflow" THEN "underflow_wrap"
                                    ELSE IF ~reached THEN "none"
                                    ELSE IF DepthGate(Top.max_depth, Top.depth) THEN "true"
                                    ELSE "false")
    /\ UNCHANGED <<world, lights, cfg, ret, renderVars, hitVars>>

\* for light in lights: ray_color(&light_ray, ...) for the next light
LightProbeCall ==
    /\ Running /\ Top.at = "lights"
    /\ Top.li <= Len(lights)
    /\ Len(stack) < MaxStack
    /\ LET a == ProbeArgs(cfg.crate)
       IN  stack' = Append(SetTop([Top EXCEPT !.at = "wait_light"]),
                           Frame("light", a.max_depth, a.depth))
    /\ step' = StepRec("call_light", FALSE, FALSE, "none")
    /\ UNCHANGED <<world, lights, pc, cfg, ret, renderVars, hitVars>>

\* light_c += albedo.c * target_color.c
LightProbeReturn ==
    /\ pc = "tracing" /\ stack # <<>> /\ ret # NoRet
    /\ Top.at = "wait_light"
    /\ stack' = SetTop([Top EXCEPT
            !.light = [c \in 1..3 |-> Top.light[c] + FMul(Top.albedo[c], ret[c])],
            !.li = @ + 1,
            !.at = "lights"])
    /\ ret' = NoRet
    /\ step' = StepRec("light_back", FALSE, FALSE, "none")
    /\ UNCHANGED <<world, lights, pc, cfg, renderVars, hitVars>>

\* after the loop: light_c /= lights.len() as f32
LightLoopEnd ==
    /\ Running /\ Top.at = "lights"
    /\ Top.li > Len(lights)
    /\ stack' = SetTop([Top EXCEPT
            !.light = [c \in 1..3 |-> Top.light[c] \div Len(lights)],
            !.at = "after_lights"])
    /\ step' = StepRec("lights_done", FALSE, FALSE, "none")
    /\ UNCHANGED <<world, lights, pc, cfg, ret, renderVars, hitVars>>

\* Some(sr) => ray_color(&sr, scene, lights, max_depth, depth - 1)
ScatterCall ==
    /\ Running /\ Top.at = "after_lights"
    /\ Top.sr
    /\ Len(stack) < MaxStack
    /\ stack' = Append(SetTop([Top EXCEPT !.at = "wait_scatter"]),
                       Frame("scatter", Top.max_depth, Top.depth - 1))
    /\ step' = StepRec("call_scatter", FALSE, FALSE, "none")
    /\ UNCHANGED <<world, lights, pc, cfg, ret, renderVars, hitVars>>

\* return Srgb::new(clamp(light_c + albedo.c * target_color.c), ...)
ScatterReturn ==
    /\ pc = "tracing" /\ stack # <<>> /\ ret # NoRet
    /\ Top.at = "wait_scatter"
    /\ Return([c \in 1..3 |-> clamp(Top.light[c] + FMul(Top.albedo[c], ret[c]))])
    /\ step' = StepRec("scatter_back", FALSE, FALSE, "none")
    /\ UNCHANGED <<world, lights, pc, cfg, renderVars, hitVars>>

\* None => albedo
ReturnAlbedo ==
    /\ Running /\ Top.at = "after_lights"
    /\ ~Top.sr
    /\ Return(Top.albedo)
    /\ step' = StepRec("albedo", FALSE, FALSE, "none")
    /\ UNCHANGED <<world, lights, pc, cfg, renderVars, hitVars>>

\* the outermost call has returned its colour to render_line
TraceDone ==
    /\ pc = "tracing" /\ stack = <<>> /\ ret # NoRet
    /\ pc' = "traced"
    /\ UNCHANGED <<world, lights, cfg, stack, ret, step, renderVars, hitVars>>

NextTrace ==
    \/ RayColorDepthZero
    \/ RayColorMiss
    \/ RayColorAbsorbed
    \/ RayColorScatter
    \/ LightProbeCall
    \/ LightProbeReturn
    \/ LightLoopEnd
    \/ ScatterCall
    \/ ScatterReturn
    \/ ReturnAlbedo
    \/ TraceDone

SpecTrace == InitTrace /\ [][NextTrace]_vars

(***************************************************************************)
(* f64 arithmetic of the intersection code: exact rationals <<num, den>>,  *)
(* den > 0, in lowest terms; sqrt is rounded down to a multiple of         *)
(* 1/SqrtScale.                                                            *)
(***************************************************************************)
SqrtScale == 1000

Abs(n) == IF n < 0 THEN -n ELSE n

RECURSIVE GCD(_, _)
GCD(a, b) == IF b = 0 THEN a ELSE GCD(b, a % b)

Norm(n, d) ==
    LET g == GCD(Abs(n), Abs(d))
        sg == IF d < 0 THEN -1 ELSE 1
    IN  <<sg * (n \div g), sg * (d \div g)>>

Rat(n) == <<n, 1>>
LCM(a, b) == (a \div GCD(a, b)) * b
RAdd(x, y) ==
    LET d == LCM(x[2], y[2])
    IN  Norm(x[1] * (d \div x[2]) + y[1] * (d \div y[2]), d)
RNeg(x) == <<-x[1], x[2]>>
RSub(x, y) == RAdd(x, RNeg(y))
RMul(x, y) ==
    LET a == Norm(x[1], y[2])
        b == Norm(y[1], x[2])
    IN  <<a[1] * b[1], a[2] * b[2]>>
\* y # 0
RDiv(x, y) == RMul(x, Norm(y[2], y[1]))
RLt(x, y) == RSub(x, y)[1] < 0
RLe(x, y) == RSub(x, y)[1] <= 0
RAbs(x) == <<Abs(x[1]), x[2]>>

\* f64::INFINITY as a bound of the search interval
Inf == <<1, 0>>
RLtBound(x, bound) == bound = Inf \/ RLt(x, bound)

RECURSIVE ISqrtBetween(_, _, _)
\* the r in lo..hi-1 with r*r <= n < (r+1)*(r+1), given lo*lo <= n < hi*hi
ISqrtBetween(n, lo, hi) ==
    IF hi - lo <= 1 THEN lo
    ELSE LET mid == (lo + hi) \div 2
         IN  IF mid * mid <= n THEN ISqrtBetween(n, mid, hi)
             ELSE ISqrtBetween(n, lo, mid)

ISqrt(n) == ISqrtBetween(n, 0, 46341)

\* x >= 0: x is first cut to a multiple of 1/SqrtScale
RSqrt(x) ==
    LET q == (x[1] * SqrtScale) \div x[2]
    IN  Norm(ISqrt(q * SqrtScale), SqrtScale)

\* Point3D
Vec(x, y, z) == <<Rat(x), Rat(y), Rat(z)>>
VAdd(p, q) == [i \in 1..3 |-> RAdd(p[i], q[i])]
VSub(p, q) == [i \in 1..3 |-> RSub(p[i], q[i])]
VMul(p, q) == [i \in 1..3 |-> RMul(p[i], q[i])]
\* no component of q is 0
VDiv(p, q) == [i \in 1..3 |-> RDiv(p[i], q[i])]
VScale(p, k) == [i \in 1..3 |-> RMul(p[i], k)]
VNeg(p) == [i \in 1..3 |-> RNeg(p[i])]
Dot(p, q) == RAdd(RAdd(RMul(p[1], q[1]), RMul(p[2], q[2])), RMul(p[3], q[3]))
LengthSquared(p) == Dot(p, p)

\* Ray::at
RayAt(ray, t) == VAdd(ray.origin, VScale(ray.direction, t))

(***************************************************************************)
(* Ellipsoid::hit and the texture coordinates.                             *)
(***************************************************************************)
NoHit == [some |-> FALSE]

\* atan2(x, z) / (2 pi) + 0.5, as the closed interval <<lo, hi>> of eighths of
\* a turn that holds it; lo = hi where the angle is a multiple of pi/4.
\* atan2(+0, z < 0) is pi and atan2(-0, z < 0) is -pi: either end.
UOfAtan2(x, z) ==
    LET sx == IF x[1] > 0 THEN 1 ELSE IF x[1] < 0 THEN -1 ELSE 0
        sz == IF z[1] > 0 THEN 1 ELSE IF z[1] < 0 THEN -1 ELSE 0
        ax == RAbs(x)
        az == RAbs(z)
        \* eighths of a turn from the +z axis towards +x, for x >= 0
        lo8 == IF sx = 0 THEN (IF sz >= 0 THEN 0 ELSE 4)
               ELSE IF sz > 0 THEN (IF RLt(ax, az) THEN 0 ELSE IF ax = az THEN 1 ELSE 1)
               ELSE IF sz = 0 THEN 2
               ELSE (IF RLt(az, ax) THEN 2 ELSE IF ax = az THEN 3 ELSE 3)
        hi8 == IF sx = 0 THEN (IF sz >= 0 THEN 0 ELSE 4)
               ELSE IF sz > 0 THEN (IF RLt(ax, az) THEN 1 ELSE IF ax = az THEN 1 ELSE 2)
               ELSE IF sz = 0 THEN 2
               ELSE (IF RLt(az, ax) THEN 3 ELSE IF ax = az THEN 3 ELSE 4)
    IN  IF sx = 0 /\ sz < 0 THEN <<Rat(0), Rat(1)>>
        ELSE IF sx >= 0 THEN <<Norm(4 + lo8, 8), Norm(4 + hi8, 8)>>
        ELSE <<Norm(4 - hi8, 8), Norm(4 - lo8, 8)>>

\* u_v_from_ellipsoid_hit_point(hit_point_on_ellipsoid, radii)
u_v_from_ellipsoid_hit_point(p, radii) ==
    LET n == VDiv(p, radii)
    IN  [u |-> UOfAtan2(n[1], n[3]), v |-> RAdd(RMul(n[2], <<1, 2>>), <<1, 2>>)]

HasZero(p) == \E i \in 1..3 : p[i][1] = 0

\* the HitRecord with the normal stored as computed, never negated
EllipsoidRecordUnflipped(e, ray, root) ==
    LET p == RayAt(ray, root)
        normal == VDiv(VSub(p, e.center), VMul(e.radii, e.radii))
        front_face == RLt(Dot(ray.direction, normal), Rat(0))
        uv == u_v_from_ellipsoid_hit_point(VSub(p, e.center), e.radii)
    IN  [some |-> TRUE, t |-> root, point |-> p,
         normal |-> normal,
         front_face |-> front_face, material |-> e.material,
         u |-> uv.u, v |-> uv.v]

\* the HitRecord built for a root inside (t_min, t_max)
EllipsoidRecord(e, ray, root) ==
    LET p == RayAt(ray, root)
        normal == VDiv(VSub(p, e.center), VMul(e.radii, e.radii))
        front_face == RLt(Dot(ray.direction, normal), Rat(0))
        uv == u_v_from_ellipsoid_hit_point(VSub(p, e.center), e.radii)
    IN  [some |-> TRUE, t |-> root, point |-> p,
         normal |-> IF front_face THEN normal ELSE VNeg(normal),
         front_face |-> front_face, material |-> e.material,
         u |-> uv.u, v |-> uv.v]

InRange(root, t_min, t_max) == RLtBound(root, t_max) /\ RLt(t_min, root)

\* c = oc.length_squared() / self.radii.length_squared() - 1.0
EllipsoidC(oc, radii) == RSub(RDiv(LengthSquared(oc), LengthSquared(radii)), Rat(1))

\* Ellipsoid::hit.  With a radii component of 0 the divisions by radii give
\* infinities and NaNs: a is infinite or NaN and half_b is never finite, so
\* both roots are NaN and fail both comparisons.  With a zero direction a is
\* 0 and both roots are 0/0.
Ellipsoid_hit(e, ray, t_min, t_max) ==
    IF HasZero(e.radii) THEN NoHit
    ELSE
    LET oc == VSub(ray.origin, e.center)
        dr == VDiv(ray.direction, e.radii)
        a == LengthSquared(dr)
        half_b == Dot(oc, dr)
        c == EllipsoidC(oc, e.radii)
        discriminant == RSub(RMul(half_b, half_b), RMul(a, c))
    IN  IF a[1] = 0 THEN NoHit
        ELSE IF RLe(Rat(0), discriminant)
        THEN LET sqrtd == RSqrt(discriminant)
                 root_a == RDiv(RSub(RNeg(half_b), sqrtd), a)
                 root_b == RDiv(RAdd(RNeg(half_b), sqrtd), a)
             IN  IF InRange(root_a, t_min, t_max) THEN EllipsoidRecord(e, ray, root_a)
                 ELSE IF InRange(root_b, t_min, t_max) THEN EllipsoidRecord(e, ray, root_b)
                 ELSE NoHit
        ELSE NoHit

\* Sphere::hit: the roots of |O + tD - C|^2 = r^2, the smaller one in range
\* first; texture coordinates from the hit point normalised by the radius.
Sphere_hit(s, ray, t_min, t_max) ==
    LET oc == VSub(ray.origin, s.center)
        a == LengthSquared(ray.direction)
        half_b == Dot(oc, ray.direction)
        c == RSub(LengthSquared(oc), RMul(s.radius, s.radius))
        discriminant == RSub(RMul(half_b, half_b), RMul(a, c))
        Record(root) ==
            LET p == RayAt(ray, root)
                normal == VScale(VSub(p, s.center), RDiv(Rat(1), s.radius))
                front_face == RLt(Dot(ray.direction, normal), Rat(0))
                uv == u_v_from_ellipsoid_hit_point(VSub(p, s.center),
                                                   <<s.radius, s.radius, s.radius>>)
            IN  [some |-> TRUE, t |-> root, point |-> p,
                 normal |-> IF front_face THEN normal ELSE VNeg(normal),
                 front_face |-> front_face, material |-> s.material,
                 u |-> uv.u, v |-> uv.v]
    IN  IF s.radius[1] = 0 \/ a[1] = 0 THEN NoHit
        ELSE IF RLe(Rat(0), discriminant)
        THEN LET sqrtd == RSqrt(discriminant)
                 root_a == RDiv(RSub(RNeg(half_b), sqrtd), a)
                 root_b == RDiv(RAdd(RNeg(half_b), sqrtd), a)
             IN  IF InRange(root_a, t_min, t_max) THEN Record(root_a)
                 ELSE IF InRange(root_b, t_min, t_max) THEN Record(root_b)
                 ELSE NoHit
        ELSE NoHit

\* impl Hittable for Body
Body_hit(b, ray, t_min, t_max) ==
    IF b.kind = "Sphere" THEN Sphere_hit(b, ray, t_min, t_max)
    ELSE Ellipsoid_hit(b, ray, t_min, t_max)

RECURSIVE hit_world_keeps_bound(_, _, _, _, _, _)
\* the loop without closest_so_far = hit.t
hit_world_keeps_bound(w, i, ray, t_min, closest_so_far, hit_record) ==
    IF i > Len(w) THEN hit_record
    ELSE LET hit == Body_hit(w[i], ray, t_min, closest_so_far)
         IN  IF hit.some
             THEN hit_world_keeps_bound(w, i + 1, ray, t_min, closest_so_far, hit)
             ELSE hit_world_keeps_bound(w, i + 1, ray, t_min, closest_so_far, hit_record)

RECURSIVE hit_world_from(_, _, _, _, _, _)
\* the loop of hit_world from body i on, with closest_so_far and hit_record
hit_world_from(w, i, ray, t_min, closest_so_far, hit_record) ==
    IF i > Len(w) THEN hit_record
    ELSE LET hit == Body_hit(w[i], ray, t_min, closest_so_far)
         IN  IF hit.some
             THEN hit_world_from(w, i + 1, ray, t_min, hit.t, hit)
             ELSE hit_world_from(w, i + 1, ray, t_min, closest_so_far, hit_record)

hit_world(w, ray, t_min, t_max) == hit_world_from(w, 1, ray, t_min, t_max, NoHit)

(***************************************************************************)
(* The hit calls on their own: an ellipsoid, a ray and a search interval.  *)
(***************************************************************************)
MaxDir == 1

HitCenters == {Vec(0, 0, 0), Vec(1, 0, -1)}

\* the radii of the tests, a larger sphere, and radii that break the invariant
HitRadii ==
    { Vec(1, 1, 1), Vec(1, 1, 2), Vec(1, 2, 3), Vec(2, 2, 2),
      Vec(-1, -1, -1), Vec(1, -1, 2), Vec(0, 1, 1) }

HitOrigins ==
    { Vec(0, 0, -5), Vec(0, 0, -1), Vec(0, 0, 0), Vec(0, 3, 0),
      Vec(1, 1, 1), Vec(2, 0, 0) }

HitDirections == {Vec(x, y, z) : x, y, z \in (-MaxDir)..MaxDir}

\* 0 as in the tests, 0.001 as in ray_color
TMins == {Rat(0), <<1, 1000>>}
TMaxs == {Inf, Rat(2)}

Ellipsoids ==
    [kind : {"Ellipsoid"}, center : HitCenters, radii : HitRadii,
     material : {"Lambertian"}]

\* the unit sphere at the centre of ellipsoid e
UnitSphereAt(e) ==
    [kind |-> "Sphere", center |-> e.center, radius |-> Rat(1), material |-> e.material]

InitHit ==
    /\ world \in {<<e>> : e \in Ellipsoids}
    /\ query \in [ray : [origin : HitOrigins, direction : HitDirections],
                  t_min : TMins, t_max : TMaxs]
    /\ hits = <<>>
    /\ lights = <<>>
    /\ pc = "hit"
    /\ renderIdle
    /\ traceIdle

\* world[1].hit(ray, t_min, t_max)
EllipsoidHit ==
    /\ pc = "hit"
    /\ hits' = Append(hits, Ellipsoid_hit(world[1], query.ray, query.t_min, query.t_max))
    /\ pc' = "hit_world"
    /\ UNCHANGED <<world, lights, query, renderVars, traceVars>>

\* hit_world(world, ray, t_min, t_max)
HitWorld ==
    /\ pc = "hit_world"
    /\ hits' = Append(hits, hit_world(world, query.ray, query.t_min, query.t_max))
    /\ pc' = "sphere"
    /\ UNCHANGED <<world, lights, query, renderVars, traceVars>>

\* the same query put to the unit sphere at the same centre
SphereHit ==
    /\ pc = "sphere"
    /\ hits' = Append(hits, Sphere_hit(UnitSphereAt(world[1]), query.ray,
                                       query.t_min, query.t_max))
    /\ pc' = "hit_done"
    /\ UNCHANGED <<world, lights, query, renderVars, traceVars>>

NextHit ==
    \/ EllipsoidHit
    \/ HitWorld
    \/ SphereHit

SpecHit == InitHit /\ [][NextHit]_vars

(***************************************************************************)
(* render_line on its own: the coordinates of the camera samples of row y. *)
(* A coordinate is the fraction <<numerator, denominator>> of the f64      *)
(* division; a denominator of 0 gives an infinity or a NaN.                *)
(***************************************************************************)
\* rng.gen::<f64>() in [0, 1), in steps of 1/JitterDen
JitterDen == 4
Jitters == 0..(JitterDen - 1)

\* u = (x as f64 + rng.gen::<f64>()) / (bounds.0 as f64 - 1.0)
SampleU(x, jitter, w) == <<x * JitterDen + jitter, (w - 1) * JitterDen>>

\* v = (bounds.1 as f64 - (y as f64 + rng.gen::<f64>())) / (bounds.1 as f64 - 1.0)
SampleV(y, jitter, h) == <<h * JitterDen - (y * JitterDen + jitter), (h - 1) * JitterDen>>

\* render_line(pixels, scene, lights, y) for a row y of an image of at least
\* one column and one row
InitLine ==
    /\ world = <<>>
    /\ lights = <<>>
    /\ width \in 1..MaxWidth
    /\ height \in 1..MaxHeight
    /\ rows \in {<<[st |-> "sampling", y |-> y, x |-> 0, u |-> <<0, 1>>, v |-> <<0, 1>>]>> :
                    y \in 0..(height - 1)}
    /\ pc = "render_line"
    /\ pixels = <<>>
    /\ bands = <<>>
    /\ encoded = <<>>
    /\ traceIdle
    /\ hitIdle

\* one pass of the loop over the samples of column x: u, v, get_ray(u, v)
LineSample ==
    /\ pc = "render_line"
    /\ rows[1].st \in {"sampling", "sampled"}
    /\ rows[1].x < width
    /\ \E ju, jv \in Jitters :
        rows' = [rows EXCEPT ![1].st = "sampled",
                             ![1].u = SampleU(rows[1].x, ju, width),
                             ![1].v = SampleV(rows[1].y, jv, height)]
    /\ UNCHANGED <<world, lights, width, height, pc, pixels, bands, encoded,
                   traceVars, hitVars>>

\* the pixel of column x is stored and the loop moves to the next column
LineNextColumn ==
    /\ pc = "render_line"
    /\ rows[1].st = "sampled"
    /\ rows' = [rows EXCEPT ![1].st = "sampling", ![1].x = @ + 1]
    /\ UNCHANGED <<world, lights, width, height, pc, pixels, bands, encoded,
                   traceVars, hitVars>>

\* x = bounds.0: render_line returns
LineEnd ==
    /\ pc = "render_line"
    /\ rows[1].st = "sampling"
    /\ rows[1].x = width
    /\ pc' = "line_done"
    /\ UNCHANGED <<world, lights, width, height, rows, pixels, bands, encoded,
                   traceVars, hitVars>>

NextLine ==
    \/ LineSample
    \/ LineNextColumn
    \/ LineEnd

SpecLine == InitLine /\ [][NextLine]_vars

(***************************************************************************)
(* hit_world over a world of several bodies, asked twice: for the world as *)
(* configured and for the same bodies in another order.                    *)
(***************************************************************************)
MaxBodies == 2

\* two ellipsoids mirrored about the plane x = 0, and two that coincide
WorldBodies ==
    { [kind |-> "Ellipsoid", center |-> Vec(1, 0, 0), radii |-> Vec(1, 1, 1),
       material |-> "Lambertian"],
      [kind |-> "Ellipsoid", center |-> Vec(-1, 0, 0), radii |-> Vec(1, 1, 1),
       material |-> "Metal"],
      [kind |-> "Ellipsoid", center |-> Vec(0, 0, 0), radii |-> Vec(1, 1, 2),
       material |-> "Glass"],
      [kind |-> "Ellipsoid", center |-> Vec(0, 0, 0), radii |-> Vec(1, 1, 2),
       material |-> "Light"] }

WorldOrigins == {Vec(0, 0, -5), Vec(0, 0, 0)}

WorldDirections ==
    {Vec(0, 0, 1), Vec(0, 1, 1), Vec(1, 0, 1), Vec(1, 1, 1), Vec(0, 0, -1)}

\* the same bodies in every order
Reorderings(w) ==
    {[i \in 1..Len(w) |-> w[p[i]]] : p \in Permutations(1..Len(w))}

InitWorld ==
    /\ world \in SeqsUpTo(WorldBodies, MaxBodies)
    /\ query \in [ray : [origin : WorldOrigins, direction : WorldDirections],
                  t_min : {<<1, 1000>>}, t_max : TMaxs]
    /\ hits = <<>>
    /\ lights = <<>>
    /\ pc = "hit_world"
    /\ renderIdle
    /\ traceIdle

\* hit_world(world, ray, t_min, t_max)
HitWorldCall ==
    /\ pc \in {"hit_world", "hit_world_again"}
    /\ hits' = Append(hits, hit_world(world, query.ray, query.t_min, query.t_max))
    /\ pc' = IF pc = "hit_world" THEN "reorder" ELSE "hit_world_done"
    /\ UNCHANGED <<world, lights, query, renderVars, traceVars>>

\* the scene lists the same bodies in another order
Reorder ==
    /\ pc = "reorder"
    /\ world' \in Reorderings(world)
    /\ pc' = "hit_world_again"
    /\ UNCHANGED <<lights, query, hits, renderVars, traceVars>>

NextWorld ==
    \/ HitWorldCall
    \/ Reorder

SpecWorld == InitWorld /\ [][NextWorld]_vars

(***************************************************************************)
(* Claims.                                                                 *)
(***************************************************************************)
\* the rows that have written byte i (1-based) of the buffer
Writers(i) == {pixels[i][n] : n \in 1..Len(pixels[i])}

\* byte offset b (0-based) lies in the slice of row y
InRowSlice(b, y) == y * width * Channels <= b /\ b < (y + 1) * width * Channels

\* C1: under every interleaving of the row tasks, each byte of the pixel buffer
\* is written only by the task of the row whose slice
\* [y*width*3, (y+1)*width*3) holds it, so no byte has two different writers.
C1_RowsWriteOwnSlice ==
    \A i \in 1..Len(pixels) :
        /\ \A y \in Writers(i) : InRowSlice(i - 1, y)
        /\ Cardinality(Writers(i)) <= 1

\* two row tasks are both in the middle of their rows, each having written bytes
C1_Witness ==
    /\ pc = "join"
    /\ Len(rows) >= 2
    /\ rows[1].st = "writing" /\ rows[2].st = "writing"
    /\ \E i, j \in 1..Len(pixels) : Writers(i) = {0} /\ Writers(j) = {1}

\* C2: write_image is called at most once and only when every row task has
\* completed; the buffer it receives has width*height*3 bytes, each written
\* exactly once; and a render that returns has called it exactly once.
C2_EncodeOnceAfterAllRows ==
    /\ Len(encoded) <= 1
    /\ pc \in {"returned_ok", "returned_err"} => Len(encoded) = 1
    /\ Len(encoded) = 1 =>
          /\ AllRowsDone
          /\ Len(rows) = height
          /\ Len(encoded[1].pixels) = width * height * Channels
          /\ \A i \in 1..Len(encoded[1].pixels) : Len(encoded[1].pixels[i]) = 1

\* a render of a 2x2 image has returned after handing over its 12 bytes
C2_Witness ==
    /\ pc = "returned_ok"
    /\ width = 2 /\ height = 2
    /\ Len(encoded) = 1
    /\ Len(encoded[1].pixels) = 12

\* C5: find_lights(world) holds exactly the bodies of the world whose material
\* is Light, sphere or ellipsoid, in the world's order.
C5_FindLightsAllLightSurfaces ==
    pc = "lights_found" => lights = SelectSeq(world, IsLightMaterial)

\* The deepest nesting a camera sample can cause when a light probe is a single
\* bounce: the chain of scattered rays at depths max_depth..0, or a probe cast
\* from one of the first two calls of the chain together with the probe's own
\* scattered ray.
CallDepthBound(max_depth) == Max(max_depth + 1, 4)

\* C3: the chain of nested ray_color calls caused by a camera sample is bounded
\* in terms of max_depth, whatever the random draws and scatter results are.
C3_CallChainBounded ==
    pc = "tracing" => Len(stack) <= CallDepthBound(cfg.max_depth)

\* C4: the call made for a light ray is a single bounce: it never runs the
\* light-sampling loop itself, and the only call nested in it is the
\* scattered-ray call at depth 0.
C4_ProbeIsSingleBounce ==
    \A i \in 1..Len(stack) :
        stack[i].kind = "light" =>
            /\ stack[i].at \notin {"lights", "wait_light"}
            /\ i < Len(stack) => stack[i + 1].kind = "scatter" /\ stack[i + 1].depth = 0

\* C10: a ray_color call with depth = 0 returns black at once: it does not
\* intersect the world, asks no material to scatter and makes no nested call,
\* whatever the world, the lights and max_depth are.
C10_DepthZeroIsBlack ==
    [][(Running /\ Top.at = "entry" /\ Top.depth = 0) =>
          /\ stack' = Pop
          /\ ret' = Black
          /\ pc' = pc
          /\ ~step'.hit_world
          /\ ~step'.scatter]_vars

\* a scattered-ray call at depth 0, made in a world with bodies, has returned
\* black to its caller
C10_Witness ==
    /\ step.op = "depth_zero"
    /\ ret = Black
    /\ Len(world) > 0
    /\ Len(stack) >= 1 /\ Top.at = "wait_scatter"

\* (1 - t) * (1, 1, 1) + t * (0.5, 0.7, 1.0) with t = 0.5 * (uy + 1), in
\* thousandths, over the common denominator 2
GradientAt(uy) ==
    LET k == <<500, 700, One>>
    IN  [c \in 1..3 |-> ((2 * One - (uy + One)) * One + (uy + One) * k[c]) \div (2 * One)]

\* C11: a ray_color call with depth >= 1 whose ray hits nothing makes no nested
\* call and returns the sky: black when no sky is configured, the gradient
\* (1 - t) * (1,1,1) + t * (0.5, 0.7, 1.0) for the gradient sky; in an empty
\* world a level ray at depth 2 under the gradient sky gives (0.75, 0.85, 1.0).
C11_MissReturnsSky ==
    [][(Running /\ Top.at = "entry" /\ Top.depth >= 1 /\ step'.op = "miss") =>
          /\ stack' = Pop
          /\ cfg.sky = "none" => ret' = Black
          /\ cfg.sky = "gradient" => ret' = GradientAt(step'.uy)
          /\ (world = <<>> /\ lights = <<>> /\ cfg.sky = "gradient"
                /\ Top.depth = 2 /\ step'.uy = 0) => ret' = <<750, 850, One>>]_vars

\* the camera call of test_ray_color has returned: empty world, no lights,
\* depth 2, gradient sky, a level ray
C11_Witness ==
    /\ step.op = "miss" /\ step.uy = 0
    /\ world = <<>> /\ lights = <<>>
    /\ cfg.sky = "gradient" /\ cfg.max_depth = 2
    /\ stack = <<>> /\ ret = <<750, 850, One>>

(***************************************************************************)
(* Claims about the intersection code.  Values that went through sqrt are  *)
(* compared with the tolerance Eps.                                        *)
(***************************************************************************)
Eps == <<1, 10>>

\* x cut down to a multiple of 1/100
Cut(x) == Norm((x[1] * 100) \div x[2], 100)

AllPositive(p) == \A i \in 1..3 : p[i][1] > 0

\* the sum over the axes of ((p - center)_i / radii_i)^2, which is 1 on the surface
SurfaceValue(e, p) ==
    LET n == VDiv(VSub(p, e.center), e.radii)
    IN  RAdd(RAdd(RMul(Cut(n[1]), Cut(n[1])), RMul(Cut(n[2]), Cut(n[2]))),
             RMul(Cut(n[3]), Cut(n[3])))

OnSurface(e, p) == RLe(RAbs(RSub(SurfaceValue(e, p), Rat(1))), Eps)

\* Whether the ray meets the surface of e at some t with lo < t < hi: the roots
\* of A t^2 + 2 B t + C with A = |D/r|^2, B = (oc/r).(D/r), C = |oc/r|^2 - 1,
\* compared with lo and hi without taking the square root.
MeetsSurfaceIn(e, ray, lo, hi) ==
    LET ocr == VDiv(VSub(ray.origin, e.center), e.radii)
        dr == VDiv(ray.direction, e.radii)
        A == LengthSquared(dr)
        B == Dot(ocr, dr)
        C == RSub(LengthSquared(ocr), Rat(1))
        D == RSub(RMul(B, B), RMul(A, C))
        Sq(x) == RMul(x, x)
        \* sqrt(D) < q and sqrt(D) > q
        RootLt(q) == q[1] > 0 /\ RLt(D, Sq(q))
        RootGt(q) == q[1] < 0 \/ RLt(Sq(q), D)
        nB == RNeg(B)
        r1_above == RootLt(RSub(nB, RMul(A, lo)))
        r1_below == hi = Inf \/ RootGt(RSub(nB, RMul(A, hi)))
        r2_above == RootGt(RAdd(RMul(A, lo), B))
        r2_below == hi # Inf /\ RootLt(RAdd(RMul(A, hi), B))
    IN  /\ A[1] # 0
        /\ D[1] >= 0
        /\ (r1_above /\ r1_below) \/ (r2_above /\ r2_below) \/ (hi = Inf /\ r2_above)

Shrink(bound) == IF bound = Inf THEN Inf ELSE RSub(bound, Eps)

\* C6: for an ellipsoid with positive radii, a hit returned by Ellipsoid::hit
\* lies in (t_min, t_max), its point is on the surface, and the ray does not
\* meet the surface earlier in the interval; no hit is returned only when the
\* ray does not meet the surface in the interval.
C6_HitIsClosestIntersection ==
    (Len(hits) >= 1 /\ AllPositive(world[1].radii)) =>
        LET e == world[1]
            h == hits[1]
        IN  IF h.some
            THEN /\ InRange(h.t, query.t_min, query.t_max)
                 /\ OnSurface(e, h.point)
                 /\ ~MeetsSurfaceIn(e, query.ray, RAdd(query.t_min, Eps), RSub(h.t, Eps))
            ELSE ~MeetsSurfaceIn(e, query.ray, RAdd(query.t_min, Eps), Shrink(query.t_max))

\* C7: for an ellipsoid with positive radii, the texture coordinates of every
\* hit record satisfy 0 <= u <= 1 and 0 <= v <= 1.
C7_TextureCoordinatesInUnitSquare ==
    (Len(hits) >= 1 /\ AllPositive(world[1].radii) /\ hits[1].some) =>
        LET h == hits[1]
        IN  /\ RLe(Rat(0), h.u[1]) /\ RLe(h.u[2], Rat(1))
            /\ RLe(RNeg(Eps), h.v) /\ RLe(h.v, RAdd(Rat(1), Eps))

\* C8: an ellipsoid with radii (1,1,1) and the unit sphere at the same centre
\* give the same outcome, the same t and the same texture coordinates.
C8_UnitEllipsoidIsUnitSphere ==
    (Len(hits) >= 3 /\ world[1].radii = Vec(1, 1, 1)) =>
        LET h == hits[1]
            s == hits[3]
        IN  /\ h.some = s.some
            /\ h.some =>
                  /\ RLe(RAbs(RSub(h.t, s.t)), Eps)
                  /\ RLe(RAbs(RSub(h.v, s.v)), Eps)
                  /\ RLe(RAbs(RSub(h.u[1], s.u[1])), Eps)
                  /\ RLe(RAbs(RSub(h.u[2], s.u[2])), Eps)

\* C9: an ellipsoid with a radii component <= 0 is never hit, neither by
\* Ellipsoid::hit nor through hit_world.
C9_InvalidRadiiNeverHit ==
    (\E i \in 1..3 : world[1].radii[i][1] <= 0) =>
        /\ Len(hits) >= 1 => ~hits[1].some
        /\ Len(hits) >= 2 => ~hits[2].some

\* (point - center) / radii^2, the normal before it is oriented
UnflippedNormal(e, h) == VDiv(VSub(h.point, e.center), VMul(e.radii, e.radii))

\* C13: in every hit returned by Ellipsoid::hit, front_face is the test
\* dot(direction, n) < 0 on n = (point - center) / radii^2, the stored normal is
\* n when front_face holds and -n otherwise, and the stored normal never has a
\* positive dot product with the ray direction.
C13_NormalFacesRay ==
    (Len(hits) >= 1 /\ hits[1].some) =>
        \A n \in {UnflippedNormal(world[1], hits[1])} :
            /\ hits[1].front_face = RLt(Dot(query.ray.direction, n), Rat(0))
            /\ hits[1].normal = IF hits[1].front_face THEN n ELSE VNeg(n)
            /\ RLe(Dot(query.ray.direction, hits[1].normal), Rat(0))

\* a ray that starts inside the ellipsoid leaves through the surface: the
\* orientation test fails and the stored normal is the negated one
C13_Witness ==
    /\ Len(hits) >= 1 /\ hits[1].some
    /\ ~hits[1].front_face
    /\ hits[1].normal = VNeg(UnflippedNormal(world[1], hits[1]))
    /\ RLt(Dot(query.ray.direction, hits[1].normal), Rat(0))

\* the squared length of v, its components rounded to hundredths
CutLengthSquared(v) ==
    RAdd(RAdd(RMul(Cut(v[1]), Cut(v[1])), RMul(Cut(v[2]), Cut(v[2]))),
         RMul(Cut(v[3]), Cut(v[3])))

\* C14: in every hit returned by Ellipsoid::hit for an ellipsoid with positive
\* radii, the stored normal has unit length.
C14_NormalIsUnit ==
    (Len(hits) >= 1 /\ hits[1].some /\ AllPositive(world[1].radii)) =>
        RLe(RAbs(RSub(CutLengthSquared(hits[1].normal), Rat(1))), Eps)

(***************************************************************************)
(* Claims about hit_world.                                                 *)
(***************************************************************************)
\* what each body of the world answers on its own over the whole interval
BodyHits ==
    [i \in 1..Len(world) |-> Body_hit(world[i], query.ray, query.t_min, query.t_max)]

\* body i is hit, and no body is hit nearer
AttainsMin(hs, i) ==
    /\ hs[i].some
    /\ \A j \in DOMAIN hs : hs[j].some => RLe(hs[i].t, hs[j].t)

\* two bodies with different hit records are hit at the same least distance
Tie(hs) ==
    \E i, j \in DOMAIN hs : AttainsMin(hs, i) /\ AttainsMin(hs, j) /\ hs[i] # hs[j]

\* C12 as stated: for the same bodies in two orders hit_world gives the same
\* outcome, the same distance t and the same material.
C12_OrderIndependent ==
    pc = "hit_world_done" =>
        /\ hits[1].some = hits[2].some
        /\ hits[1].some => hits[1].t = hits[2].t /\ hits[1].material = hits[2].material

\* C12, amended: for the same bodies in two orders hit_world gives None exactly
\* when no body is hit in range and otherwise the same least distance t; it
\* gives the same record too unless two bodies are hit at that same least
\* distance, and then it gives the one that comes first in the world.
C12_OrderIndependentUpToTies ==
    pc = "hit_world_done" =>
        \A hs \in {BodyHits} :
            /\ hits[1].some = hits[2].some
            /\ hits[2].some = (\E i \in DOMAIN hs : hs[i].some)
            /\ hits[1].some => hits[1].t = hits[2].t
            /\ ~Tie(hs) => hits[1] = hits[2]
            /\ hits[2].some =>
                  \E i \in DOMAIN hs :
                      /\ AttainsMin(hs, i)
                      /\ hits[2] = hs[i]
                      /\ \A j \in 1..(i - 1) : ~AttainsMin(hs, j)

\* two bodies are hit at different distances and the nearer one is listed
\* second
C12_Witness ==
    /\ pc = "hit_world_done"
    /\ Len(world) = 2
    /\ \E hs \in {BodyHits} :
        /\ hs[1].some /\ hs[2].some
        /\ RLt(hs[2].t, hs[1].t)
        /\ hits[2] = hs[2] /\ hits[1] = hits[2]

(***************************************************************************)
(* Claims about render_line's samples.                                     *)
(***************************************************************************)
\* the fraction is a finite number in [0, 1]
FiniteInUnit(f) == f[2] > 0 /\ 0 <= f[1] /\ f[1] <= f[2]

\* C15: for every width and height, every pixel (x, y) and every jitter in
\* [0, 1), the u and v that render_line hands to camera.get_ray are finite and
\* lie in [0, 1].
C15_SampleCoordinatesInUnitSquare ==
    (pc = "render_line" /\ rows[1].st = "sampled") =>
        FiniteInUnit(rows[1].u) /\ FiniteInUnit(rows[1].v)

(***************************************************************************)
(* Claims about the light-sampling condition.                              *)
(***************************************************************************)
\* C16: wherever ray_color evaluates depth > max_depth - 2, in a call chain
\* started by render_line with a configured max_depth >= 1, max_depth is at
\* least 2: the subtraction neither panics nor wraps.
C16_GateNeverUnderflows ==
    (pc \in {"tracing", "panicked", "traced"} /\ cfg.max_depth >= 1) =>
        step.gate \notin {"underflow_panic", "underflow_wrap"}

====
